---- MODULE Spec2Model ----
(***************************************************************************)
(* NetDiagram: the discovery traversal (network_discovery.py), the         *)
(* neighbor parsers (data_parser.py) and the session layer                 *)
(* (device_connector.py).                                                  *)
(*                                                                         *)
(* Representation.  A Python str holding device output is a sequence of    *)
(* tokens: "\n" and " " are the whitespace characters, "---" is a run of   *)
(* three or more dashes, "," a comma, the labels the regular expressions   *)
(* anchor on ("Device ID:", "IP address:", ...) are one token each, and    *)
(* every other token is a word without whitespace.  A str that is a value  *)
(* (an extracted field, an address, a dict key) is a TLA+ string.  A dict  *)
(* is a function from its keys; None is the string "<None>".               *)
(***************************************************************************)
EXTENDS Integers, Sequences, FiniteSets, TLC

VARIABLES
    seed_devices,        \* argument of discover_network
    max_devices,         \* argument of discover_network
    ignore_subnets,      \* argument of discover_network
    ignored_networks,    \* parsed ignore subnets
    discovered_devices,  \* the store: address -> device_data
    discovery_queue,     \* pending device_params, FIFO
    attempted_ips,       \* addresses processed or skipped
    device_params,       \* the entry dequeued by the current iteration
    device_data,         \* discover_single_device: the record being built
    connection,          \* discover_single_device: the open session, or None
    results,             \* discover_single_device: command -> output
    cdp_neighbors,       \* discover_single_device: parsed CDP list
    lldp_neighbors,      \* discover_single_device: parsed LLDP list
    all_neighbors,       \* discover_single_device: merged list
    pc,                  \* position in discover_network / discover_single_device
    calls,               \* history: the calls made so far, in order
    skipped,             \* history: addresses dequeued and skipped as invalid or excluded
    command_list,        \* discover_single_device: the commands handed to execute_commands
    responses,           \* what send_command did for each command of the current device
    depth,               \* history: the distance from the seeds of each entry and visit
    graph                \* DiagramGenerator.graph

vars == <<seed_devices, max_devices, ignore_subnets, ignored_networks,
          discovered_devices, discovery_queue, attempted_ips, device_params,
          device_data, connection, results, cdp_neighbors, lldp_neighbors,
          all_neighbors, pc, calls, skipped, command_list, responses, depth, graph>>

(***************************************************************************)
(* Python values                                                           *)
(***************************************************************************)
None == "<None>"

\* dict.get(key): the value, or None when the key is absent
Get(d, key) == IF key \in DOMAIN d THEN d[key] ELSE None

\* truth value of a str-or-None
Truthy(v) == v # None /\ v # ""

\* a local variable: v is evaluated once and F is applied to its value
Bind(v, F(_)) == CHOOSE r \in {F(x) : x \in {v}} : TRUE

\* d[key] = value
SetKey(d, key, value) ==
    Bind(d, LAMBDA old : Bind(value, LAMBDA new :
        [x \in (DOMAIN old) \cup {key} |-> IF x = key THEN new ELSE old[x]]))

\* d.update(other)
Update(d, other) ==
    Bind(d, LAMBDA old : Bind(other, LAMBDA new :
        [x \in (DOMAIN old) \cup (DOMAIN new) |->
            IF x \in DOMAIN new THEN new[x] ELSE old[x]]))

EmptyDict == [x \in {} |-> None]

Min(S) == CHOOSE x \in S : \A y \in S : x <= y

Max(S) == CHOOSE x \in S : \A y \in S : x >= y

(***************************************************************************)
(* Regular expressions of data_parser.py over token sequences              *)
(***************************************************************************)
\* \s
IsSpace(t) == t \in {" ", "\n"}

\* str.strip() on a token sequence
RECURSIVE LStrip(_)
LStrip(s) == IF s # <<>> /\ IsSpace(Head(s)) THEN LStrip(Tail(s)) ELSE s

RECURSIVE RStrip(_)
RStrip(s) ==
    IF s # <<>> /\ IsSpace(s[Len(s)]) THEN RStrip(SubSeq(s, 1, Len(s) - 1)) ELSE s

Strip(s) == RStrip(LStrip(s))

\* the characters of a token sequence as one str
RECURSIVE Join(_)
Join(s) == IF s = <<>> THEN "" ELSE Head(s) \o Join(Tail(s))

\* (.+?)term with the group starting at s: the position of the terminator of
\* the shortest match, 0 when there is none ('.' does not match "\n")
GroupEnd(block, s, term) ==
    LET ends == {p \in (s + 1)..Len(block) :
                    /\ block[p] = term
                    /\ \A q \in s..(p - 1) : block[q] # "\n"}
    IN  IF ends = {} THEN 0 ELSE Min(ends)

\* label[\s]*(.+?)term matched at the label at position i: group(1), or <<>>
\* when the pattern does not match there ([\s]* is greedy and backtracks)
MatchAt(block, i, term) ==
    LET ks == {k \in 0..(Len(block) - i) :
                  /\ \A j \in (i + 1)..(i + k) : IsSpace(block[j])
                  /\ GroupEnd(block, i + k + 1, term) # 0}
    IN  IF ks = {} THEN <<>>
        ELSE Bind(Max(ks), LAMBDA k :
                 SubSeq(block, i + k + 1, GroupEnd(block, i + k + 1, term) - 1))

\* re.search(label[\s]*(.+?)term, block): group(1) of the leftmost match, or
\* <<>> for no match (a group is never empty)
re_search(label, term, block) ==
    LET starts == {i \in 1..Len(block) :
                      block[i] \in label /\ MatchAt(block, i, term) # <<>>}
    IN  IF starts = {} THEN <<>>
        ELSE Bind(Min(starts), LAMBDA i : MatchAt(block, i, term))

\* if match: neighbor[key] = match.group(1).strip()
Extract(neighbor, key, label, term, block) ==
    Bind(re_search(label, term, block), LAMBDA group :
        IF group # <<>> THEN SetKey(neighbor, key, Join(Strip(group))) ELSE neighbor)

\* re.split(r'-{3,}', output)
RECURSIVE SplitDashes(_)
SplitDashes(text) ==
    LET seps == {i \in 1..Len(text) : text[i] = "---"}
    IN  IF seps = {} THEN <<text>>
        ELSE <<SubSeq(text, 1, Min(seps) - 1)>>
                 \o Bind(SubSeq(text, Min(seps) + 1, Len(text)), LAMBDA rest :
                         SplitDashes(rest))

\* re.split(r'[\r\n][\r\n]Device ID:.+?[\r\n]', output)
RECURSIVE SplitDeviceId(_)
SplitDeviceId(text) ==
    LET marks == {i \in 1..(Len(text) - 2) :
                     /\ text[i] = "\n"
                     /\ text[i + 1] = "\n"
                     /\ text[i + 2] = "Device ID:"
                     /\ GroupEnd(text, i + 3, "\n") # 0}
    IN  IF marks = {} THEN <<text>>
        ELSE <<SubSeq(text, 1, Min(marks) - 1)>>
                 \o Bind(SubSeq(text, GroupEnd(text, Min(marks) + 3, "\n") + 1, Len(text)),
                         LAMBDA rest : SplitDeviceId(rest))

(***************************************************************************)
(* DataParser                                                              *)
(***************************************************************************)
\* a parser argument: raw text, or the list an upstream TextFSM template made
Raw(text) == [type |-> "str", value |-> text]

Structured(list) == [type |-> "list", value |-> list]

\* the fields one CDP block yields
cdp_neighbor(block) ==
    LET n1 == Extract(EmptyDict, "device_id", {"Device ID:"}, "\n", block)
        n2 == Extract(n1, "ip", {"IP address:", "IPv4 address:"}, "\n", block)
        n3 == Extract(n2, "platform", {"Platform:"}, ",", block)
        n4 == Extract(n3, "local_interface", {"Interface:"}, ",", block)
    IN  Extract(n4, "remote_interface", {"Port ID (outgoing port):"}, "\n", block)

\* the fields one LLDP block yields
lldp_neighbor(block) ==
    LET n1 == Extract(EmptyDict, "device_id", {"System Name:"}, "\n", block)
        n2 == Extract(n1, "ip", {"Management Address:"}, "\n", block)
        n3 == Extract(n2, "local_interface", {"Local Interface:"}, "\n", block)
    IN  Extract(n3, "remote_interface", {"Port ID:"}, "\n", block)

\* variant: the address is not required
HasEssentialInfo_id(neighbor) == Truthy(Get(neighbor, "device_id"))

\* "Only add if we have essential information"
HasEssentialInfo(neighbor) ==
    Truthy(Get(neighbor, "device_id")) /\ Truthy(Get(neighbor, "ip"))

\* for block in device_blocks: ...
RECURSIVE cdp_blocks(_, _)
cdp_blocks(device_blocks, neighbors) ==
    IF device_blocks = <<>> THEN neighbors
    ELSE IF Strip(Head(device_blocks)) = <<>>
         THEN cdp_blocks(Tail(device_blocks), neighbors)
    ELSE Bind(cdp_neighbor(Head(device_blocks)), LAMBDA neighbor :
             IF HasEssentialInfo(neighbor)
             THEN cdp_blocks(Tail(device_blocks), Append(neighbors, neighbor))
             ELSE cdp_blocks(Tail(device_blocks), neighbors))

parse_cdp_neighbors(output) ==
    IF output.type = "list" THEN output.value
    ELSE Bind(SplitDashes(output.value), LAMBDA device_blocks :
             cdp_blocks(device_blocks, <<>>))

RECURSIVE lldp_blocks(_, _)
lldp_blocks(device_blocks, neighbors) ==
    IF device_blocks = <<>> THEN neighbors
    ELSE IF Strip(Head(device_blocks)) = <<>>
         THEN lldp_blocks(Tail(device_blocks), neighbors)
    ELSE Bind(lldp_neighbor(Head(device_blocks)), LAMBDA neighbor :
             IF HasEssentialInfo(neighbor)
             THEN lldp_blocks(Tail(device_blocks), Append(neighbors, neighbor))
             ELSE lldp_blocks(Tail(device_blocks), neighbors))

parse_lldp_neighbors(output) ==
    IF output.type = "list" THEN output.value
    ELSE Bind(SplitDeviceId(output.value), LAMBDA device_blocks :
             lldp_blocks(device_blocks, <<>>))

\* the words of 'show version' output are tokens; the blanks between the words
\* of a line are implicit and "\n" ends a line
Words(text) == SelectSeq(text, LAMBDA t : t # "\n")

\* (?:cisco|Cisco)\s+(\S+)(?:\s+\S+){0,3}\s+processor
hardware_match(text) ==
    Bind(Words(text), LAMBDA w :
        LET starts == {i \in 1..Len(w) :
                          /\ w[i] \in {"cisco", "Cisco"}
                          /\ \E k \in 0..3 :
                                i + 2 + k <= Len(w) /\ w[i + 2 + k] = "processor"}
        IN  IF starts = {} THEN None ELSE w[Min(starts) + 1])

\* Cisco IOS Software.*Version\s+([^,\s]+)
version_match(text) ==
    LET starts == {i \in 1..Len(text) :
                      /\ text[i] = "Cisco IOS Software"
                      /\ \E j \in (i + 1)..(Len(text) - 1) :
                            /\ text[j] = "Version"
                            /\ \A q \in i..j : text[q] # "\n"
                            /\ LStrip(SubSeq(text, j + 1, Len(text))) # <<>>}
    IN  IF starts = {} THEN None
        ELSE Bind(Min(starts), LAMBDA i :
                 Bind(Max({q \in (i + 1)..(Len(text) - 1) :
                              /\ text[q] = "Version"
                              /\ \A r \in i..q : text[r] # "\n"
                              /\ LStrip(SubSeq(text, q + 1, Len(text))) # <<>>}),
                      LAMBDA j : Head(LStrip(SubSeq(text, j + 1, Len(text))))))

\* (\S+)\s+uptime\s+is
hostname_match(text) ==
    Bind(Words(text), LAMBDA w :
        LET starts == {i \in 1..(Len(w) - 2) : w[i + 1] = "uptime" /\ w[i + 2] = "is"}
        IN  IF starts = {} THEN None ELSE w[Min(starts)])

parse_version(output) ==
    IF output.type = "list"
    THEN IF Len(output.value) > 0 THEN output.value[1] ELSE output.value
    ELSE Bind(hardware_match(output.value), LAMBDA hardware :
         Bind(version_match(output.value), LAMBDA version :
         Bind(hostname_match(output.value), LAMBDA hostname :
             LET v1 == IF hardware # None
                       THEN SetKey(EmptyDict, "hardware", hardware)
                       ELSE EmptyDict
                 v2 == IF version # None THEN SetKey(v1, "version", version) ELSE v1
             IN  IF hostname # None THEN SetKey(v2, "hostname", hostname) ELSE v2)))

\* raw text yields no interfaces; a structured list is keyed by interface name
RECURSIVE interface_dict(_, _)
interface_dict(list, acc) ==
    IF list = <<>> THEN acc
    ELSE interface_dict(Tail(list),
                        SetKey(acc, IF "interface" \in DOMAIN Head(list)
                                    THEN Head(list)["interface"] ELSE "unknown",
                               Head(list)))

parse_interfaces(output) ==
    IF output.type = "list" THEN interface_dict(output.value, EmptyDict) ELSE EmptyDict

(***************************************************************************)
(* ipaddress                                                               *)
(***************************************************************************)
\* the decimal fields of the dotted strings the model uses; <<>> for a str
\* that is not dotted decimal
Fields(s) ==
    CASE s = "10.0.0.1" -> <<10, 0, 0, 1>>
      [] s = "10.0.0.2" -> <<10, 0, 0, 2>>
      [] s = "10.0.0.3" -> <<10, 0, 0, 3>>
      [] s = "10.0.1.1" -> <<10, 0, 1, 1>>
      [] s = "10.0.0.256" -> <<10, 0, 0, 256>>
      [] s = "10.0.1.0" -> <<10, 0, 1, 0>>
      [] OTHER -> <<>>

\* ipaddress.ip_address(s) does not raise ValueError
IsAddress(s) == Len(Fields(s)) = 4 /\ \A i \in 1..4 : Fields(s)[i] \in 0..255

\* int(ipaddress.ip_address(s))
AddressValue(s) ==
    Fields(s)[1] * 16777216 + Fields(s)[2] * 65536 + Fields(s)[3] * 256 + Fields(s)[4]

\* "address/prefixlen" split at the slash
SubnetParts(subnet) ==
    CASE subnet = "10.0.1.0/24" -> [address |-> "10.0.1.0", prefixlen |-> 24]
      [] subnet = "10.0.0.2/31" -> [address |-> "10.0.0.2", prefixlen |-> 31]
      [] subnet = "10.0.1.1/24" -> [address |-> "10.0.1.1", prefixlen |-> 24]
      [] subnet = "10.0.0.1/32" -> [address |-> "10.0.0.1", prefixlen |-> 32]
      [] OTHER -> [address |-> subnet, prefixlen |-> 32]

Pow2(n) == IF n = 0 THEN 1 ELSE 2 ^ n

\* ipaddress.ip_network(subnet) does not raise ValueError (strict: no host bits)
IsNetwork(subnet) ==
    LET p == SubnetParts(subnet)
    IN  /\ IsAddress(p.address)
        /\ p.prefixlen \in 0..32
        /\ AddressValue(p.address) % Pow2(32 - p.prefixlen) = 0

ip_network(subnet) ==
    [network_address |-> AddressValue(SubnetParts(subnet).address),
     prefixlen |-> SubnetParts(subnet).prefixlen]

\* variant: only the network address itself counts as inside
InNetwork_exact(ip, network) == AddressValue(ip) = network.network_address

\* ip_addr in network
InNetwork(ip, network) ==
    AddressValue(ip) \div Pow2(32 - network.prefixlen)
        = network.network_address \div Pow2(32 - network.prefixlen)

\* any(ip_addr in network for network in ignored_networks)
InIgnored(ip, networks) ==
    \E i \in 1..Len(networks) : InNetwork(ip, networks[i])

\* for subnet in ignore_subnets: try ... except ValueError
RECURSIVE prepare_networks(_, _)
prepare_networks(subnets, networks) ==
    IF subnets = <<>> THEN networks
    ELSE IF IsNetwork(Head(subnets))
         THEN prepare_networks(Tail(subnets), Append(networks, ip_network(Head(subnets))))
    ELSE prepare_networks(Tail(subnets), networks)

(***************************************************************************)
(* Bounds and inputs                                                       *)
(***************************************************************************)
MaxSeeds == 2

MaxDevicesBound == 3

MaxSubnets == 1

MaxCdpBlocks == 2

MaxLldpBlocks == 1

\* all sequences over S of length at most n
SeqsUpTo(S, n) == UNION {[1..k -> S] : k \in 0..n}

\* the concatenation of a sequence of token sequences
RECURSIVE Flatten(_)
Flatten(ss) == IF ss = <<>> THEN <<>> ELSE Head(ss) \o Flatten(Tail(ss))

\* addresses of seed entries: two devices, one inside 10.0.1.0/24, one that
\* is no address
SeedIps == {"10.0.0.1", "10.0.0.2", "10.0.1.1", "10.0.0.256"}

\* the credentials of a seed entry: 10.0.0.2 is listed with its own
SeedUser(ip) == IF ip = "10.0.0.2" THEN "ops" ELSE "admin"

SeedLists == SeqsUpTo({[ip |-> ip, username |-> SeedUser(ip)] : ip \in SeedIps}, MaxSeeds)

SubnetLists == SeqsUpTo({"10.0.1.0/24", "10.0.0.2/31", "10.0.1.1/24"}, MaxSubnets)

MaxLines == 4

MaxRecords == 2

MaxMergeCdp == 2

MaxMergeLldp == 3

\* one 'show cdp neighbors detail' entry
CdpEntryOf(id, ip) ==
    <<"---", "\n", "Device ID:", " ", id, "\n", "IP address:", " ", ip, "\n">>

CdpEntry(ip) == CdpEntryOf("SW", ip)

\* one 'show lldp neighbors detail' entry
LldpEntry(ip) ==
    <<"\n", "\n", "Device ID:", "x", "\n", "System Name:", " ", "sw.lan", "\n",
      "Management Address:", " ", ip, "\n">>

\* what send_command can return for the CDP and LLDP commands during a run
CdpOutputs ==
    {Flatten([i \in 1..Len(ips) |-> CdpEntry(ips[i])]) :
        ips \in SeqsUpTo({"10.0.0.2", "10.0.0.256"}, MaxCdpBlocks)}

LldpOutputs ==
    {Flatten([i \in 1..Len(ips) |-> LldpEntry(ips[i])]) :
        ips \in SeqsUpTo({"10.0.1.1"}, MaxLldpBlocks)}

\* the lines CDP output is made of: a separator, an empty line, and the
\* labelled lines with and without a value
CdpLines ==
    {<<"---", "\n">>,
     <<"\n">>,
     <<"Device ID:", " ", "SW", "\n">>,
     <<"Device ID:", "\n">>,
     <<"Device ID:", " ", "\n">>,
     <<" ", " ", "IP address:", " ", "10.0.0.2", "\n">>,
     <<"IP address:", "\n">>,
     <<"Platform:", " ", "cisco", ",", " ", "Capabilities:", " ", "Switch", "\n">>,
     <<"Interface:", " ", "Gi1", ",", " ", "Port ID (outgoing port):", " ", "Gi2", "\n">>}

\* the lines LLDP output is made of
LldpLines ==
    {<<"\n", "Device ID:", "x", "\n">>,
     <<"\n">>,
     <<"System Name:", " ", "sw.lan", "\n">>,
     <<"System Name:", "\n">>,
     <<"Management Address:", " ", "10.0.0.2", "\n">>,
     <<"Local Interface:", " ", "Gi1", "\n">>,
     <<"Port ID:", " ", "Gi2", "\n">>}

\* every text of at most n lines
LineTexts(lines, n) == {Flatten(ls) : ls \in SeqsUpTo(lines, n)}

\* the records of a list an upstream template produced: with the parser's
\* keys, without an address, and with the template's own keys
StructuredRecords ==
    {[device_id |-> "SW", ip |-> "10.0.0.2"],
     [device_id |-> "SW"],
     [destination_host |-> "SW", management_ip |-> "10.0.0.2"]}

\* the arguments the parsers accept: raw text and structured lists
CdpTexts == LineTexts(CdpLines, MaxLines)

LldpTexts == LineTexts(LldpLines, MaxLines)

StructuredLists == SeqsUpTo(StructuredRecords, MaxRecords)

\* CDP and LLDP output of one device, with repeated and shared addresses
MergeCdpOutputs ==
    {Flatten([i \in 1..Len(es) |-> CdpEntryOf(es[i][1], es[i][2])]) :
        es \in SeqsUpTo({"SW", "SW2"} \X {"10.0.0.2", "10.0.0.3"}, MaxMergeCdp)}

MergeLldpOutputs ==
    {Flatten([i \in 1..Len(ips) |-> LldpEntry(ips[i])]) :
        ips \in SeqsUpTo({"10.0.0.2", "10.0.0.3"}, MaxMergeLldp)}

VersionOutput ==
    <<"Cisco IOS Software", "C3750", "Software", "Version", "15.2", "\n",
      "cisco", "WS-C3750", "processor", "\n", "SW", "uptime", "is", "1", "day", "\n">>

(***************************************************************************)
(* discover_single_device                                                  *)
(***************************************************************************)
commands ==
    <<"show version", "show cdp neighbors detail", "show lldp neighbors detail",
      "show interfaces", "show ip interface brief", "show vlan brief",
      "show spanning-tree bridge", "show ip route">>

\* the mapping execute_commands returns: one entry per command
CommandResults(version, cdp, lldp) ==
    [c \in {commands[i] : i \in 1..Len(commands)} |->
        CASE c = "show version" -> version
          [] c = "show cdp neighbors detail" -> cdp
          [] c = "show lldp neighbors detail" -> lldp
          [] OTHER -> Raw(<<>>)]

\* results.get(command, '')
ResultOf(res, command) == IF command \in DOMAIN res THEN res[command] ELSE Raw(<<>>)

\* variant: an appended address is not added to the tracked set
RECURSIVE append_lldp_untracked(_, _, _)
append_lldp_untracked(lldp, neighbors, neighbor_ips) ==
    IF lldp = <<>> THEN neighbors
    ELSE IF Get(Head(lldp), "ip") \notin neighbor_ips
         THEN append_lldp_untracked(Tail(lldp), Append(neighbors, Head(lldp)), neighbor_ips)
    ELSE append_lldp_untracked(Tail(lldp), neighbors, neighbor_ips)

\* for lldp_neighbor in lldp_neighbors: append when the ip is not yet tracked
RECURSIVE append_lldp(_, _, _)
append_lldp(lldp, neighbors, neighbor_ips) ==
    IF lldp = <<>> THEN neighbors
    ELSE IF Get(Head(lldp), "ip") \notin neighbor_ips
         THEN append_lldp(Tail(lldp), Append(neighbors, Head(lldp)),
                          neighbor_ips \cup {Get(Head(lldp), "ip")})
    ELSE append_lldp(Tail(lldp), neighbors, neighbor_ips)

\* "Combine neighbors and remove duplicates based on IP"
combine_neighbors(cdp, lldp) ==
    append_lldp(lldp, cdp,
                {Get(cdp[i], "ip") : i \in {j \in 1..Len(cdp) : Truthy(Get(cdp[j], "ip"))}})

device_ip == Get(device_params, "ip")

\* a call and what it returned (ok = FALSE: connect returned None)
Call(op, ip, ok) == [op |-> op, ip |-> ip, ok |-> ok]

\* datetime.now(): a clock that advances with every device
Now == Len(SelectSeq(calls, LAMBDA c : c.op = "discover_single_device")) + 1

\* nx.Graph(): no nodes and no edges
EmptyGraph == [nodes |-> EmptyDict, edges |-> <<>>]

NetworkVars == <<seed_devices, max_devices, ignore_subnets, ignored_networks,
                 discovered_devices, discovery_queue, attempted_ips, device_params, skipped,
                 depth>>

GraphVars == <<graph>>

\* variant: a failed connection abandons the device
ConnectFail_abandon ==
    /\ pc = "connect"
    /\ connection' = None
    /\ calls' = Append(calls, Call("connect", device_ip, FALSE))
    /\ pc' = "loop"
    /\ UNCHANGED <<NetworkVars, GraphVars, command_list, responses, device_data, results,
                   cdp_neighbors, lldp_neighbors,
                   all_neighbors>>

ConnectFail ==
    /\ pc = "connect"
    /\ connection' = None
    /\ calls' = Append(calls, Call("connect", device_ip, FALSE))
    /\ pc' = "store"
    /\ UNCHANGED <<NetworkVars, GraphVars, command_list, responses, device_data, results,
                   cdp_neighbors, lldp_neighbors,
                   all_neighbors>>

ConnectOk ==
    /\ pc = "connect"
    /\ connection' = device_ip
    /\ calls' = Append(calls, Call("connect", device_ip, TRUE))
    /\ command_list' = commands
    /\ pc' = "execute"
    /\ UNCHANGED <<NetworkVars, GraphVars, responses, device_data, results, cdp_neighbors,
                   lldp_neighbors,
                   all_neighbors>>

\* connection.send_command(command) returns the output or raises
Sent(output) == [raises |-> FALSE, output |-> output]

Raised(message) == [raises |-> TRUE, message |-> <<message>>]

\* what a device can do with a command: the CDP command can time out
ResponsesTo(command) ==
    CASE command = "show version" -> {Sent(VersionOutput)}
      [] command = "show cdp neighbors detail" ->
             {Sent(output) : output \in CdpOutputs} \cup {Raised("timeout")}
      [] command = "show lldp neighbors detail" -> {Sent(output) : output \in LldpOutputs}
      [] OTHER -> {Sent(<<>>)}

\* one response for every command of the list, in order
RECURSIVE Responses(_)
Responses(list) ==
    IF list = <<>> THEN {<<>>}
    ELSE {<<first>> \o rest : first \in ResponsesTo(Head(list)),
                              rest \in Responses(Tail(list))}

\* results[command] = output, or f"ERROR: {str(e)}" when send_command raised
result_of(response) ==
    IF response.raises THEN Raw(<<"ERROR:", " ">> \o response.message)
    ELSE Raw(response.output)

\* variant: the try statement encloses the loop, the first exception ends it
RECURSIVE execute_commands_abort(_, _, _)
execute_commands_abort(list, sends, res) ==
    IF list = <<>> THEN res
    ELSE IF Head(sends).raises THEN SetKey(res, Head(list), result_of(Head(sends)))
    ELSE execute_commands_abort(Tail(list), Tail(sends),
                                SetKey(res, Head(list), result_of(Head(sends))))

\* for command in commands: try: ... except Exception: ...
RECURSIVE execute_commands(_, _, _)
execute_commands(list, sends, res) ==
    IF list = <<>> THEN res
    ELSE execute_commands(Tail(list), Tail(sends),
                          SetKey(res, Head(list), result_of(Head(sends))))

ExecuteCommands ==
    /\ pc = "execute"
    /\ \E sends \in Responses(command_list) :
           /\ responses' = sends
           /\ results' = execute_commands(command_list, sends, EmptyDict)
    /\ calls' = Append(calls, Call("execute_commands", device_ip, TRUE))
    /\ pc' = "parse"
    /\ UNCHANGED <<NetworkVars, GraphVars, command_list, device_data, connection,
                   cdp_neighbors, lldp_neighbors, all_neighbors>>

\* lines 93-101: the version fields, the CDP list and the LLDP list
ParseOutputs ==
    /\ pc = "parse"
    /\ device_data' = Update(device_data, parse_version(ResultOf(results, "show version")))
    /\ cdp_neighbors' = parse_cdp_neighbors(ResultOf(results, "show cdp neighbors detail"))
    /\ lldp_neighbors' = parse_lldp_neighbors(ResultOf(results, "show lldp neighbors detail"))
    /\ pc' = "combine"
    /\ UNCHANGED <<NetworkVars, GraphVars, command_list, responses, connection, results,
                   all_neighbors, calls>>

CombineNeighbors ==
    /\ pc = "combine"
    /\ all_neighbors' = combine_neighbors(cdp_neighbors, lldp_neighbors)
    /\ device_data' =
           SetKey(SetKey(SetKey(device_data, "neighbors", all_neighbors'),
                         "interfaces", parse_interfaces(ResultOf(results, "show interfaces"))),
                  "raw_output", results)
    /\ pc' = "disconnect"
    /\ UNCHANGED <<NetworkVars, GraphVars, command_list, responses, connection, results,
                   cdp_neighbors, lldp_neighbors, calls>>

\* variant: the session is closed at the end of the try block, not in a
\* finally clause
Except_unclosed ==
    /\ pc \in {"execute", "parse", "combine"}
    /\ calls' = Append(calls, Call("except", device_ip, TRUE))
    /\ pc' = "store"
    /\ UNCHANGED <<NetworkVars, GraphVars, command_list, responses, device_data,
                   connection, results, cdp_neighbors, lldp_neighbors, all_neighbors>>

\* an exception leaves the try block (lines 79-123): the except clause logs it,
\* device_data stays as built so far, and the finally clause is next
Except ==
    /\ pc \in {"execute", "parse", "combine"}
    /\ calls' = Append(calls, Call("except", device_ip, TRUE))
    /\ pc' = "disconnect"
    /\ UNCHANGED <<NetworkVars, GraphVars, command_list, responses, device_data,
                   connection, results, cdp_neighbors, lldp_neighbors, all_neighbors>>

Disconnect ==
    /\ pc = "disconnect"
    /\ connection' = None
    /\ calls' = Append(calls, Call("disconnect", device_ip, TRUE))
    /\ pc' = "store"
    /\ UNCHANGED <<NetworkVars, GraphVars, command_list, responses, device_data, results,
                   cdp_neighbors, lldp_neighbors,
                   all_neighbors>>

(***************************************************************************)
(* discover_network                                                        *)
(***************************************************************************)
DeviceVars == <<device_data, connection, results, cdp_neighbors, lldp_neighbors,
                all_neighbors, command_list, responses>>

Inputs == <<seed_devices, max_devices, ignore_subnets>>

\* [d.get('ip') for d in discovery_queue]
QueuedIps(queue) == {Get(queue[i], "ip") : i \in 1..Len(queue)}

\* variant: the loop over the neighbors ends at the first one enqueued
RECURSIVE enqueue_neighbors_first(_, _, _, _, _)
enqueue_neighbors_first(neighbors, queue, attempted, networks, params) ==
    IF neighbors = <<>> THEN queue
    ELSE IF /\ Truthy(Get(Head(neighbors), "ip"))
            /\ Get(Head(neighbors), "ip") \notin attempted
            /\ Get(Head(neighbors), "ip") \notin QueuedIps(queue)
            /\ IsAddress(Get(Head(neighbors), "ip"))
            /\ ~InIgnored(Get(Head(neighbors), "ip"), networks)
         THEN Append(queue, SetKey(params, "ip", Get(Head(neighbors), "ip")))
    ELSE enqueue_neighbors_first(Tail(neighbors), queue, attempted, networks, params)

\* variant: the addresses in the queue are listed once, before the loop over
\* the neighbors
RECURSIVE enqueue_neighbors_scanned(_, _, _, _, _, _)
enqueue_neighbors_scanned(neighbors, queue, attempted, networks, params, queued) ==
    IF neighbors = <<>> THEN queue
    ELSE IF /\ Truthy(Get(Head(neighbors), "ip"))
            /\ Get(Head(neighbors), "ip") \notin attempted
            /\ Get(Head(neighbors), "ip") \notin queued
            /\ IsAddress(Get(Head(neighbors), "ip"))
            /\ ~InIgnored(Get(Head(neighbors), "ip"), networks)
         THEN enqueue_neighbors_scanned(
                  Tail(neighbors),
                  Append(queue, SetKey(params, "ip", Get(Head(neighbors), "ip"))),
                  attempted, networks, params, queued)
    ELSE enqueue_neighbors_scanned(Tail(neighbors), queue, attempted, networks,
                                   params, queued)

enqueue_neighbors_once(neighbors, queue, attempted, networks, params) ==
    enqueue_neighbors_scanned(neighbors, queue, attempted, networks, params,
                              QueuedIps(queue))

\* variant: a neighbor is appended without the ip_address and subnet tests
RECURSIVE enqueue_neighbors_unfiltered(_, _, _, _, _)
enqueue_neighbors_unfiltered(neighbors, queue, attempted, networks, params) ==
    IF neighbors = <<>> THEN queue
    ELSE IF /\ Truthy(Get(Head(neighbors), "ip"))
            /\ Get(Head(neighbors), "ip") \notin attempted
            /\ Get(Head(neighbors), "ip") \notin QueuedIps(queue)
         THEN enqueue_neighbors_unfiltered(
                  Tail(neighbors),
                  Append(queue, SetKey(params, "ip", Get(Head(neighbors), "ip"))),
                  attempted, networks, params)
    ELSE enqueue_neighbors_unfiltered(Tail(neighbors), queue, attempted, networks, params)

\* for neighbor in device_data['neighbors']: ...
RECURSIVE enqueue_neighbors(_, _, _, _, _)
enqueue_neighbors(neighbors, queue, attempted, networks, params) ==
    IF neighbors = <<>> THEN queue
    ELSE IF /\ Truthy(Get(Head(neighbors), "ip"))
            /\ Get(Head(neighbors), "ip") \notin attempted
            /\ Get(Head(neighbors), "ip") \notin QueuedIps(queue)
            /\ IsAddress(Get(Head(neighbors), "ip"))
            /\ ~InIgnored(Get(Head(neighbors), "ip"), networks)
         THEN enqueue_neighbors(Tail(neighbors),
                                Append(queue, SetKey(params, "ip", Get(Head(neighbors), "ip"))),
                                attempted, networks, params)
    ELSE enqueue_neighbors(Tail(neighbors), queue, attempted, networks, params)

Start ==
    /\ pc = "start"
    /\ discovered_devices' = EmptyDict
    /\ discovery_queue' = seed_devices
    /\ attempted_ips' = {}
    /\ ignored_networks' = prepare_networks(ignore_subnets, <<>>)
    /\ depth' = [depth EXCEPT !.queue = [i \in 1..Len(seed_devices) |-> 0]]
    /\ pc' = "loop"
    /\ UNCHANGED <<Inputs, GraphVars, device_params, DeviceVars, calls, skipped>>

\* variant: the cap compared with <=
LoopCondition_inclusive ==
    discovery_queue # <<>> /\ Cardinality(DOMAIN discovered_devices) <= max_devices

\* variant: the cap is not tested
LoopCondition_uncapped == discovery_queue # <<>>

LoopCondition ==
    discovery_queue # <<>> /\ Cardinality(DOMAIN discovered_devices) < max_devices

LoopExit ==
    /\ pc = "loop"
    /\ ~LoopCondition
    /\ pc' = "done"
    /\ UNCHANGED <<Inputs, GraphVars, ignored_networks, discovered_devices, discovery_queue,
                   attempted_ips, device_params, DeviceVars, calls, skipped, depth>>

\* variant: discovery_queue.pop() takes the entry at the back
Pop_last ==
    /\ pc = "loop"
    /\ LoopCondition
    /\ device_params' = discovery_queue[Len(discovery_queue)]
    /\ discovery_queue' = SubSeq(discovery_queue, 1, Len(discovery_queue) - 1)
    /\ depth' = [depth EXCEPT !.queue = SubSeq(@, 1, Len(@) - 1),
                              !.current = depth.queue[Len(depth.queue)]]

\* device_params = discovery_queue.pop(0)
Pop ==
    /\ pc = "loop"
    /\ LoopCondition
    /\ device_params' = Head(discovery_queue)
    /\ discovery_queue' = Tail(discovery_queue)
    /\ depth' = [depth EXCEPT !.queue = Tail(@), !.current = Head(depth.queue)]

\* variant: the front entry is read and left in the queue
SkipAttempted_peek ==
    /\ pc = "loop"
    /\ LoopCondition
    /\ device_params' = Head(discovery_queue)
    /\ Get(device_params', "ip") \in attempted_ips
    /\ pc' = "loop"
    /\ UNCHANGED <<Inputs, GraphVars, ignored_networks, discovered_devices, discovery_queue,
                   attempted_ips, DeviceVars, calls, skipped, depth>>

SkipAttempted ==
    /\ Pop
    /\ Get(device_params', "ip") \in attempted_ips
    /\ pc' = "loop"
    /\ UNCHANGED <<Inputs, GraphVars, ignored_networks, discovered_devices, attempted_ips,
                   DeviceVars, calls, skipped>>

SkipInvalid ==
    /\ Pop
    /\ Get(device_params', "ip") \notin attempted_ips
    /\ ~IsAddress(Get(device_params', "ip"))
    /\ attempted_ips' = attempted_ips \cup {Get(device_params', "ip")}
    /\ skipped' = skipped \cup {Get(device_params', "ip")}
    /\ pc' = "loop"
    /\ UNCHANGED <<Inputs, GraphVars, ignored_networks, discovered_devices, DeviceVars, calls>>

\* variant: an ignored address is not marked attempted
SkipIgnored_unmarked ==
    /\ Pop
    /\ Get(device_params', "ip") \notin attempted_ips
    /\ IsAddress(Get(device_params', "ip"))
    /\ InIgnored(Get(device_params', "ip"), ignored_networks)
    /\ skipped' = skipped \cup {Get(device_params', "ip")}
    /\ pc' = "loop"
    /\ UNCHANGED <<Inputs, GraphVars, ignored_networks, discovered_devices, attempted_ips,
                   DeviceVars, calls>>

SkipIgnored ==
    /\ Pop
    /\ Get(device_params', "ip") \notin attempted_ips
    /\ IsAddress(Get(device_params', "ip"))
    /\ InIgnored(Get(device_params', "ip"), ignored_networks)
    /\ attempted_ips' = attempted_ips \cup {Get(device_params', "ip")}
    /\ skipped' = skipped \cup {Get(device_params', "ip")}
    /\ pc' = "loop"
    /\ UNCHANGED <<Inputs, GraphVars, ignored_networks, discovered_devices, DeviceVars, calls>>

\* variant: the attempted check of line 171 is missing
Visit_unchecked ==
    /\ Pop
    /\ IsAddress(Get(device_params', "ip"))
    /\ ~InIgnored(Get(device_params', "ip"), ignored_networks)
    /\ device_data' = [ip |-> Get(device_params', "ip"), discovered_at |-> Now]
    /\ calls' = Append(calls, Call("discover_single_device", Get(device_params', "ip"), TRUE))
    /\ pc' = "connect"
    /\ UNCHANGED <<Inputs, GraphVars, ignored_networks, discovered_devices, attempted_ips,
                   connection, results, cdp_neighbors, lldp_neighbors, all_neighbors,
                   skipped, command_list, responses>>

\* discover_single_device is entered: device_data holds the address and the time
Visit ==
    /\ Pop
    /\ Get(device_params', "ip") \notin attempted_ips
    /\ IsAddress(Get(device_params', "ip"))
    /\ ~InIgnored(Get(device_params', "ip"), ignored_networks)
    /\ device_data' = [ip |-> Get(device_params', "ip"), discovered_at |-> Now]
    /\ calls' = Append(calls, Call("discover_single_device", Get(device_params', "ip"), TRUE))
    /\ pc' = "connect"
    /\ UNCHANGED <<Inputs, GraphVars, ignored_networks, discovered_devices, attempted_ips,
                   connection, results, cdp_neighbors, lldp_neighbors, all_neighbors,
                   skipped, command_list, responses>>

\* variant: the store is rebuilt around the new record
Store_rebuilt ==
    /\ pc = "store"
    /\ discovered_devices' = SetKey(EmptyDict, device_ip, device_data)
    /\ attempted_ips' = attempted_ips \cup {device_ip}
    /\ depth' = [depth EXCEPT !.visited = Append(@, depth.current)]
    /\ pc' = "neighbors"
    /\ UNCHANGED <<Inputs, GraphVars, ignored_networks, discovery_queue, device_params,
                   DeviceVars,
                   calls, skipped>>

\* variant: the record is stored and the address is not added to attempted_ips
Store_unmarked ==
    /\ pc = "store"
    /\ discovered_devices' = SetKey(discovered_devices, device_ip, device_data)
    /\ depth' = [depth EXCEPT !.visited = Append(@, depth.current)]
    /\ pc' = "neighbors"
    /\ UNCHANGED <<Inputs, GraphVars, ignored_networks, discovery_queue, device_params,
                   attempted_ips, DeviceVars, calls, skipped>>

\* discovered_devices[device_ip] = device_data; attempted_ips.add(device_ip)
Store ==
    /\ pc = "store"
    /\ discovered_devices' = SetKey(discovered_devices, device_ip, device_data)
    /\ attempted_ips' = attempted_ips \cup {device_ip}
    /\ depth' = [depth EXCEPT !.visited = Append(@, depth.current)]
    /\ pc' = "neighbors"
    /\ UNCHANGED <<Inputs, GraphVars, ignored_networks, discovery_queue, device_params,
                   DeviceVars,
                   calls, skipped>>

\* variant: neighbor_params is device_params itself, not a copy; the one dict
\* is the dequeued entry, every entry appended for it and, for a seed, the
\* entry of the caller's list
ProcessNeighbors_inplace ==
    /\ pc = "neighbors"
    /\ LET queue == IF "neighbors" \in DOMAIN device_data
                    THEN enqueue_neighbors(device_data["neighbors"], discovery_queue,
                                           attempted_ips, ignored_networks, device_params)
                    ELSE discovery_queue
           added == Len(queue) - Len(discovery_queue)
           shared == IF added = 0 THEN device_params ELSE queue[Len(queue)]
       IN  /\ discovery_queue' = discovery_queue \o [i \in 1..added |-> shared]
           /\ device_params' = shared
           /\ seed_devices' =
                  IF depth.current = 0
                  THEN [i \in 1..Len(seed_devices) |->
                           IF seed_devices[i] = device_params THEN shared
                           ELSE seed_devices[i]]
                  ELSE seed_devices
           /\ depth' = [depth EXCEPT !.queue =
                            @ \o [i \in 1..added |-> depth.current + 1]]
    /\ pc' = "loop"
    /\ UNCHANGED <<max_devices, ignore_subnets, GraphVars, ignored_networks,
                   discovered_devices, attempted_ips, DeviceVars, calls, skipped>>

ProcessNeighbors ==
    /\ pc = "neighbors"
    /\ discovery_queue' =
           IF "neighbors" \in DOMAIN device_data
           THEN enqueue_neighbors(device_data["neighbors"], discovery_queue,
                                  attempted_ips, ignored_networks, device_params)
           ELSE discovery_queue
    /\ depth' = [depth EXCEPT !.queue =
                     @ \o [i \in 1..(Len(discovery_queue') - Len(discovery_queue)) |->
                              depth.current + 1]]
    /\ pc' = "loop"
    /\ UNCHANGED <<Inputs, GraphVars, ignored_networks, discovered_devices, attempted_ips,
                   device_params, DeviceVars, calls, skipped>>

Init ==
    /\ seed_devices \in SeedLists
    /\ max_devices \in 0..MaxDevicesBound
    /\ ignore_subnets \in SubnetLists
    /\ ignored_networks = <<>>
    /\ discovered_devices = EmptyDict
    /\ discovery_queue = <<>>
    /\ attempted_ips = {}
    /\ device_params = EmptyDict
    /\ device_data = EmptyDict
    /\ connection = None
    /\ results = EmptyDict
    /\ cdp_neighbors = <<>>
    /\ lldp_neighbors = <<>>
    /\ all_neighbors = <<>>
    /\ pc = "start"
    /\ calls = <<>>
    /\ skipped = {}
    /\ command_list = <<>>
    /\ responses = <<>>
    /\ depth = [queue |-> <<>>, current |-> 0, visited |-> <<>>]
    /\ graph = EmptyGraph

Next ==
    \/ Start
    \/ LoopExit
    \/ SkipAttempted
    \/ SkipInvalid
    \/ SkipIgnored
    \/ Visit
    \/ ConnectFail
    \/ ConnectOk
    \/ ExecuteCommands
    \/ ParseOutputs
    \/ CombineNeighbors
    \/ Except
    \/ Disconnect
    \/ Store
    \/ ProcessNeighbors

Spec == Init /\ [][Next]_vars

MaxFairSeeds == 2

MaxFairDevices == 2

\* the calls of discover_network the runs are followed to their end for
InitFair ==
    /\ Init
    /\ Len(seed_devices) <= MaxFairSeeds
    /\ max_devices <= MaxFairDevices
    /\ \A i \in 1..Len(ignore_subnets) : IsNetwork(ignore_subnets[i])

\* the interpreter keeps running the loop: a step that can be taken is taken
SpecFair == InitFair /\ [][Next]_vars /\ WF_vars(Next)

(***************************************************************************)
(* discover_single_device and the parsers on their own                     *)
(***************************************************************************)
\* a device has been dequeued and connected to, and its commands have run
InDevice(res) ==
    /\ seed_devices = <<[ip |-> "10.0.0.1", username |-> "admin"]>>
    /\ max_devices = 1
    /\ ignore_subnets = <<>>
    /\ ignored_networks = <<>>
    /\ discovered_devices = EmptyDict
    /\ discovery_queue = <<>>
    /\ attempted_ips = {}
    /\ device_params = [ip |-> "10.0.0.1", username |-> "admin"]
    /\ device_data = [ip |-> "10.0.0.1", discovered_at |-> 1]
    /\ connection = "10.0.0.1"
    /\ results = res
    /\ cdp_neighbors = <<>>
    /\ lldp_neighbors = <<>>
    /\ all_neighbors = <<>>
    /\ pc = "parse"
    /\ calls = <<Call("discover_single_device", "10.0.0.1", TRUE),
                 Call("connect", "10.0.0.1", TRUE),
                 Call("execute_commands", "10.0.0.1", TRUE)>>
    /\ skipped = {}
    /\ command_list = commands
    /\ responses = <<>>
    /\ depth = [queue |-> <<>>, current |-> 0, visited |-> <<>>]
    /\ graph = EmptyGraph

\* the parsers on every argument they accept, one protocol at a time
InitParse ==
    \/ \E t \in CdpTexts :
           InDevice(CommandResults(Raw(VersionOutput), Raw(t), Raw(<<>>)))
    \/ \E l \in StructuredLists :
           InDevice(CommandResults(Raw(VersionOutput), Structured(l), Raw(<<>>)))
    \/ \E t \in LldpTexts :
           InDevice(CommandResults(Raw(VersionOutput), Raw(<<>>), Raw(t)))
    \/ \E l \in StructuredLists :
           InDevice(CommandResults(Raw(VersionOutput), Raw(<<>>), Structured(l)))

NextParse == ParseOutputs

SpecParse == InitParse /\ [][NextParse]_vars

\* discover_single_device on the raw output of one device
InitDevice ==
    \E cdp \in MergeCdpOutputs, lldp \in MergeLldpOutputs :
        InDevice(CommandResults(Raw(VersionOutput), Raw(cdp), Raw(lldp)))

NextDevice ==
    \/ ParseOutputs
    \/ CombineNeighbors
    \/ Disconnect

SpecDevice == InitDevice /\ [][NextDevice]_vars

(***************************************************************************)
(* DeviceConnector.execute_commands on its own                             *)
(***************************************************************************)
MaxCommands == 3

\* the command lists execute_commands is applied to
CommandLists ==
    SeqsUpTo({"show version", "show cdp neighbors detail", "show lldp neighbors detail"},
             MaxCommands)

\* a session is open and execute_commands is called with a list of commands
InitExecute ==
    /\ seed_devices = <<[ip |-> "10.0.0.1", username |-> "admin"]>>
    /\ max_devices = 1
    /\ ignore_subnets = <<>>
    /\ ignored_networks = <<>>
    /\ discovered_devices = EmptyDict
    /\ discovery_queue = <<>>
    /\ attempted_ips = {}
    /\ device_params = [ip |-> "10.0.0.1", username |-> "admin"]
    /\ device_data = [ip |-> "10.0.0.1", discovered_at |-> 1]
    /\ connection = "10.0.0.1"
    /\ results = EmptyDict
    /\ cdp_neighbors = <<>>
    /\ lldp_neighbors = <<>>
    /\ all_neighbors = <<>>
    /\ pc = "execute"
    /\ calls = <<Call("discover_single_device", "10.0.0.1", TRUE),
                 Call("connect", "10.0.0.1", TRUE)>>
    /\ skipped = {}
    /\ command_list \in CommandLists
    /\ responses = <<>>
    /\ depth = [queue |-> <<>>, current |-> 0, visited |-> <<>>]
    /\ graph = EmptyGraph

NextExecute == ExecuteCommands

SpecExecute == InitExecute /\ [][NextExecute]_vars

(***************************************************************************)
(* DiagramGenerator                                                        *)
(***************************************************************************)
MaxGraphDevices == 2

MaxGraphNeighbors == 2

\* the markers _determine_device_type looks for that occur in s.lower(), for
\* the hardware and host names of the model
MarkersIn(s) ==
    CASE s = "WS-C3750" -> {"3750"}
      [] s = "ISR4331" -> {"isr"}
      [] s = "SW" -> {"sw"}
      [] s = "rtr1" -> {"rt", "rtr"}
      [] OTHER -> {}

\* dict.get(key, default)
GetOr(d, key, default) == IF key \in DOMAIN d THEN d[key] ELSE default

determine_device_type(data) ==
    LET hardware == MarkersIn(GetOr(data, "hardware", ""))
        hostname == MarkersIn(GetOr(data, "hostname", ""))
    IN  CASE hardware \cap {"cat", "2960", "3750", "9300"} # {} -> "switch"
          [] hardware \cap {"isr", "4300", "4400", "1900", "2900", "3900"} # {} -> "router"
          [] hardware \cap {"asa", "firepower"} # {} -> "firewall"
          [] "sw" \in hostname -> "switch"
          [] "rt" \in hostname \/ "rtr" \in hostname -> "router"
          [] "fw" \in hostname -> "firewall"
          [] OTHER -> "switch"

\* the addresses of the model in str order
AddressOrder == <<"10.0.0.1", "10.0.0.2", "10.0.0.3", "10.0.1.1">>

Rank(s) == CHOOSE i \in 1..Len(AddressOrder) : AddressOrder[i] = s

\* tuple(sorted([a, b]))
sorted_pair(a, b) == IF Rank(a) <= Rank(b) THEN <<a, b>> ELSE <<b, a>>

\* devices.items(): a dict iterates in insertion order, and records are
\* inserted in the order discover_single_device stamped them
RECURSIVE items(_, _)
items(devices, keys) ==
    IF keys = {} THEN <<>>
    ELSE LET first == CHOOSE k \in keys :
                          \A o \in keys : devices[k]["discovered_at"] <= devices[o]["discovered_at"]
         IN  <<first>> \o items(devices, keys \ {first})

\* nx.Graph.add_node for every device
add_nodes(devices) ==
    [device \in DOMAIN devices |->
        [label |-> GetOr(devices[device], "hostname", device),
         device_type |-> determine_device_type(devices[device]),
         data |-> devices[device]]]

\* nx.Graph.add_edge: an undirected simple graph holds one edge per pair of
\* end points; adding it again replaces its attributes
add_edge(edges, u, v, local_intf, remote_intf) ==
    IF \E i \in 1..Len(edges) : {edges[i].u, edges[i].v} = {u, v}
    THEN [i \in 1..Len(edges) |->
             IF {edges[i].u, edges[i].v} = {u, v}
             THEN [edges[i] EXCEPT !.local_interface = local_intf,
                                   !.remote_interface = remote_intf]
             ELSE edges[i]]
    ELSE Append(edges, [u |-> u, v |-> v, local_interface |-> local_intf,
                        remote_interface |-> remote_intf])

\* for neighbor in device_data['neighbors']: ...
RECURSIVE add_connections(_, _, _, _)
add_connections(source_ip, neighbors, devices, acc) ==
    IF neighbors = <<>> THEN acc
    ELSE LET neighbor == Head(neighbors)
             neighbor_ip == Get(neighbor, "ip")
             connection_id == sorted_pair(source_ip, neighbor_ip)
         IN  IF /\ Truthy(neighbor_ip)
                /\ neighbor_ip \in DOMAIN devices
                /\ connection_id \notin acc.added_connections
             THEN add_connections(source_ip, Tail(neighbors), devices,
                      [edges |-> add_edge(acc.edges, source_ip, neighbor_ip,
                                          GetOr(neighbor, "local_interface", ""),
                                          GetOr(neighbor, "remote_interface", "")),
                       added_connections |-> acc.added_connections \cup {connection_id}])
             ELSE add_connections(source_ip, Tail(neighbors), devices, acc)

\* for source_ip, device_data in devices.items(): ...
RECURSIVE add_all_connections(_, _, _)
add_all_connections(sources, devices, acc) ==
    IF sources = <<>> THEN acc
    ELSE add_all_connections(Tail(sources), devices,
             IF "neighbors" \in DOMAIN devices[Head(sources)]
             THEN add_connections(Head(sources), devices[Head(sources)]["neighbors"],
                                  devices, acc)
             ELSE acc)

build_graph(devices) ==
    [nodes |-> add_nodes(devices),
     edges |-> add_all_connections(items(devices, DOMAIN devices), devices,
                                   [edges |-> <<>>, added_connections |-> {}]).edges]

\* main, lines 275-276, on the store discover_network returned
BuildGraph ==
    /\ pc = "done"
    /\ graph' = build_graph(discovered_devices)
    /\ pc' = "graphed"
    /\ UNCHANGED <<NetworkVars, DeviceVars, calls>>

\* the neighbor records of the stores build_graph is applied to
GraphNeighbors ==
    {[device_id |-> "SW", ip |-> ip, local_interface |-> "Gi1", remote_interface |-> "Gi2"] :
        ip \in {"10.0.0.1", "10.0.0.2", "10.0.1.1"}}
    \cup {[device_id |-> "SW", ip |-> "10.0.0.2"]}

\* a record of the store: of a failed connection, or with a neighbor list
GraphRecords ==
    {EmptyDict} \cup
    {[hostname |-> "SW", hardware |-> "WS-C3750", neighbors |-> ns] :
        ns \in SeqsUpTo(GraphNeighbors, MaxGraphNeighbors)}

\* the stores: distinct addresses in insertion order, each with a record
GraphStores ==
    {s \in SeqsUpTo({"10.0.0.1", "10.0.0.2", "10.0.0.3"} \X GraphRecords, MaxGraphDevices) :
        \A i, j \in 1..Len(s) : i # j => s[i][1] # s[j][1]}

store_of(s) ==
    [ip \in {s[i][1] : i \in 1..Len(s)} |->
        LET i == CHOOSE k \in 1..Len(s) : s[k][1] = ip
        IN  Update([ip |-> ip, discovered_at |-> i], s[i][2])]

InitGraph ==
    /\ seed_devices = <<>>
    /\ max_devices = MaxGraphDevices
    /\ ignore_subnets = <<>>
    /\ ignored_networks = <<>>
    /\ \E s \in GraphStores :
           /\ discovered_devices = store_of(s)
           /\ attempted_ips = DOMAIN store_of(s)
    /\ discovery_queue = <<>>
    /\ device_params = EmptyDict
    /\ device_data = EmptyDict
    /\ connection = None
    /\ results = EmptyDict
    /\ cdp_neighbors = <<>>
    /\ lldp_neighbors = <<>>
    /\ all_neighbors = <<>>
    /\ pc = "done"
    /\ calls = <<>>
    /\ skipped = {}
    /\ command_list = <<>>
    /\ responses = <<>>
    /\ depth = [queue |-> <<>>, current |-> 0, visited |-> <<>>]
    /\ graph = EmptyGraph

NextGraph == BuildGraph

SpecGraph == InitGraph /\ [][NextGraph]_vars

(***************************************************************************)
(* Properties of discover_network                                          *)
(***************************************************************************)
StoreKeys == DOMAIN discovered_devices

\* the addresses that lie inside a subnet, written out: the subnets that
\* ip_network accepts and the addresses of the model they contain
LiesIn(ip, subnet) ==
    \/ subnet = "10.0.1.0/24" /\ ip \in {"10.0.1.0", "10.0.1.1"}
    \/ subnet = "10.0.0.2/31" /\ ip \in {"10.0.0.2", "10.0.0.3"}

Excluded(ip) == \E i \in 1..Len(ignore_subnets) : LiesIn(ip, ignore_subnets[i])

\* the strings of the model that are no address
NotAnAddress(ip) == ip \in {"10.0.0.256", "SW", "sw.lan", "", None}

CallsOf(op, ip) == {i \in 1..Len(calls) : calls[i].op = op /\ calls[i].ip = ip}

CalledIps == {calls[i].ip : i \in 1..Len(calls)}

\* the addresses a stored record lists as neighbors
NeighborIpsOf(ip) ==
    IF "neighbors" \in DOMAIN discovered_devices[ip]
    THEN {Get(discovered_devices[ip]["neighbors"][k], "ip") :
              k \in 1..Len(discovered_devices[ip]["neighbors"])}
    ELSE {}

\* C1: the store never holds more than max_devices records, in any state of
\* the run and in the returned result
C1_StoreWithinCap == Cardinality(StoreKeys) <= max_devices

\* the cap stopped a run that still had entries queued
C1_Witness ==
    /\ pc = "done"
    /\ max_devices >= 2
    /\ Cardinality(StoreKeys) = max_devices
    /\ discovery_queue # <<>>

\* C2: within one run discover_single_device, and so connect, is invoked at
\* most once per address
C2_VisitedOnce ==
    \A ip \in CalledIps :
        /\ Cardinality(CallsOf("discover_single_device", ip)) <= 1
        /\ Cardinality(CallsOf("connect", ip)) <= 1

\* an address given twice in the seed list and reported by another device was
\* visited, and the run is over
C2_Witness ==
    /\ pc = "done"
    /\ Len(seed_devices) = 2
    /\ seed_devices[1]["ip"] = seed_devices[2]["ip"]
    /\ CallsOf("connect", seed_devices[1]["ip"]) # {}
    /\ \E other \in StoreKeys \ {seed_devices[1]["ip"]} :
           seed_devices[1]["ip"] \in NeighborIpsOf(other)

\* C3: no session is opened to, and no record is stored for, an address that
\* lies inside a successfully parsed ignore subnet
C3_IgnoredNeverVisited ==
    \A ip \in CalledIps \cup StoreKeys \cup {connection} : ~Excluded(ip)

\* an address inside an ignore subnet was a seed and was reported as a
\* neighbor by a stored device
C3_Witness ==
    /\ pc = "done"
    /\ \E i \in 1..Len(seed_devices) :
           /\ Excluded(seed_devices[i]["ip"])
           /\ \E other \in StoreKeys : seed_devices[i]["ip"] \in NeighborIpsOf(other)

FailedConnect(ip) ==
    \E i \in 1..Len(calls) : calls[i].op = "connect" /\ calls[i].ip = ip /\ ~calls[i].ok

MinimalRecord(record, ip) ==
    DOMAIN record = {"ip", "discovered_at"} /\ record["ip"] = ip

C8_Stored ==
    \A ip \in CalledIps :
        FailedConnect(ip) =>
            \/ pc = "store" /\ device_ip = ip
            \/ /\ ip \in StoreKeys
               /\ MinimalRecord(discovered_devices[ip], ip)
               /\ ip \in attempted_ips

C8_Step ==
    /\ (pc = "store" /\ FailedConnect(device_ip)) =>
           /\ MinimalRecord(device_data, device_ip)
           /\ discovered_devices' = SetKey(discovered_devices, device_ip, device_data)
           /\ discovery_queue' = discovery_queue
           /\ pc' = "neighbors"
    /\ (pc = "neighbors" /\ FailedConnect(device_ip)) =>
           /\ discovery_queue' = discovery_queue
           /\ pc' = "loop"

\* C8: when connect fails for a dequeued address, a record holding only the
\* address and the timestamp is stored under it, the address is attempted,
\* nothing is enqueued from it and the loop goes on
C8_FailedConnectionStored == [] C8_Stored /\ [][C8_Step]_vars

\* after a failed connection another device was visited
C8_Witness ==
    \E i \in 1..Len(calls) :
        /\ calls[i].op = "connect"
        /\ ~calls[i].ok
        /\ calls[i].ip \in StoreKeys
        /\ MinimalRecord(discovered_devices[calls[i].ip], calls[i].ip)
        /\ \E j \in (i + 1)..Len(calls) : calls[j].op = "disconnect"

\* C9: at every loop boundary every store key is attempted, and the attempted
\* addresses that are no store key are exactly those dequeued and skipped as
\* no address or as excluded
C9_AttemptedAndStore ==
    pc \in {"loop", "done"} =>
        /\ StoreKeys \subseteq attempted_ips
        /\ attempted_ips \ StoreKeys = skipped
        /\ \A ip \in attempted_ips \ StoreKeys : NotAnAddress(ip) \/ Excluded(ip)

\* an excluded seed and an invalid seed are attempted and not stored
C9_Witness ==
    /\ pc = "done"
    /\ Len(seed_devices) = 2
    /\ Excluded(seed_devices[1]["ip"])
    /\ NotAnAddress(seed_devices[2]["ip"])
    /\ {seed_devices[1]["ip"], seed_devices[2]["ip"]} \subseteq attempted_ips
    /\ seed_devices[1]["ip"] \notin StoreKeys
    /\ seed_devices[2]["ip"] \notin StoreKeys

\* C10: no address leaves attempted, and a stored record is never removed,
\* replaced or changed by a later step
C10_FrontierGrows ==
    [][/\ attempted_ips \subseteq attempted_ips'
       /\ \A ip \in StoreKeys :
              ip \in DOMAIN discovered_devices'
                  /\ discovered_devices'[ip] = discovered_devices[ip]]_vars

\* three records were stored one after the other
C10_Witness == pc = "done" /\ Cardinality(StoreKeys) = 3

(***************************************************************************)
(* Properties of discover_single_device and the parsers                    *)
(***************************************************************************)
IpsOf(list) == {Get(list[i], "ip") : i \in 1..Len(list)}

IndicesOf(list, ip) == {i \in 1..Len(list) : Get(list[i], "ip") = ip}

\* C4: an address that occurs in the CDP list and in the LLDP list has
\* exactly one record in the merged list, and that record is a CDP record
C4_OneCdpRecordPerSharedAddress ==
    pc = "disconnect" =>
        \A ip \in IpsOf(cdp_neighbors) \cap IpsOf(lldp_neighbors) :
            /\ Cardinality(IndicesOf(all_neighbors, ip)) = 1
            /\ \A i \in IndicesOf(all_neighbors, ip) :
                   \E j \in 1..Len(cdp_neighbors) : cdp_neighbors[j] = all_neighbors[i]

\* the LLDP record at position i is kept by the merge
RECURSIVE KeptLldp(_)
KeptLldp(i) ==
    /\ Get(lldp_neighbors[i], "ip") \notin IpsOf(cdp_neighbors)
    /\ \A j \in 1..(i - 1) :
           KeptLldp(j) => Get(lldp_neighbors[j], "ip") # Get(lldp_neighbors[i], "ip")

KeptLldpIndices == {i \in 1..Len(lldp_neighbors) : KeptLldp(i)}

\* the k-th smallest element of a set of numbers
Nth(S, k) == CHOOSE i \in S : Cardinality({j \in S : j < i}) = k - 1

\* C5: the merged list is the CDP list, in order, followed by the LLDP
\* records, in order, whose address is neither a CDP address nor the address
\* of an LLDP record kept before
C5_MergedIsCdpThenNewLldp ==
    pc = "disconnect" =>
        all_neighbors =
            cdp_neighbors \o [k \in 1..Cardinality(KeptLldpIndices) |->
                                 lldp_neighbors[Nth(KeptLldpIndices, k)]]

\* a merge that drops one LLDP record for a CDP address and one for an
\* address kept before, and keeps an LLDP record behind two CDP records
C5_Witness ==
    /\ pc = "disconnect"
    /\ Len(cdp_neighbors) = 2
    /\ Len(lldp_neighbors) = 3
    /\ Len(all_neighbors) = 3
    /\ Get(lldp_neighbors[1], "ip") \in IpsOf(cdp_neighbors)
    /\ Get(lldp_neighbors[2], "ip") = Get(lldp_neighbors[3], "ip")
    /\ all_neighbors[3] = lldp_neighbors[2]

\* the argument of a parser
CdpArgument == ResultOf(results, "show cdp neighbors detail")

LldpArgument == ResultOf(results, "show lldp neighbors detail")

\* the blocks of a text that are not blank
NonBlank(blocks) == SelectSeq(blocks, LAMBDA b : \E i \in 1..Len(b) : ~IsSpace(b[i]))

\* the fields of the non-blank blocks of the argument, in block order
CdpFields ==
    [i \in 1..Len(NonBlank(SplitDashes(CdpArgument.value))) |->
        cdp_neighbor(NonBlank(SplitDashes(CdpArgument.value))[i])]

LldpFields ==
    [i \in 1..Len(NonBlank(SplitDeviceId(LldpArgument.value))) |->
        lldp_neighbor(NonBlank(SplitDeviceId(LldpArgument.value))[i])]

\* a record has a non-empty device identifier and a non-empty address
HasIdAndAddress(record) ==
    /\ "device_id" \in DOMAIN record
    /\ record["device_id"] \notin {"", None}
    /\ "ip" \in DOMAIN record
    /\ record["ip"] \notin {"", None}

\* a record without its platform and interface fields
WithoutOtherFields(record) ==
    [k \in (DOMAIN record) \cap {"device_id", "ip"} |-> record[k]]

C7_RecordsHaveIdAndAddress ==
    /\ pc \notin {"start", "parse"} =>
           /\ \A i \in 1..Len(cdp_neighbors) : HasIdAndAddress(cdp_neighbors[i])
           /\ \A i \in 1..Len(lldp_neighbors) : HasIdAndAddress(lldp_neighbors[i])
    /\ \A ip \in StoreKeys :
           "neighbors" \in DOMAIN discovered_devices[ip] =>
               \A k \in 1..Len(discovered_devices[ip]["neighbors"]) :
                   HasIdAndAddress(discovered_devices[ip]["neighbors"][k])

\* the connection attempts made so far
Attempts == Cardinality({i \in 1..Len(calls) : calls[i].op = "connect"})

\* connect has returned for the device being visited and its record is not
\* yet in the store
RecordPending == pc \in {"execute", "parse", "combine", "disconnect", "store"}

IsPrefix(s, t) == Len(s) <= Len(t) /\ SubSeq(t, 1, Len(s)) = s

\* C12 as stated: at every point of a run the number of connection attempts
\* made so far equals the number of stored records
C12_AttemptsEqualStored == Attempts = Cardinality(StoreKeys)

C12_Counted ==
    /\ Attempts = Cardinality(StoreKeys) + (IF RecordPending THEN 1 ELSE 0)
    /\ Attempts <= max_devices

C12_CapStep ==
    Cardinality(StoreKeys) >= max_devices =>
        /\ IsPrefix(discovery_queue, discovery_queue')
        /\ calls' = calls
        /\ attempted_ips' = attempted_ips

\* C12, amended: the number of connection attempts equals the number of stored
\* records, plus one while the record of the device being visited is not yet
\* stored; at most max_devices sessions are attempted; once the store holds
\* max_devices records nothing is dequeued, no call is made and attempted
\* does not change
C12_AttemptsFollowStore == [] C12_Counted /\ [][C12_CapStep]_vars

\* the cap ends a run with max_devices = 1 while a neighbor is queued
C12_Witness ==
    /\ pc = "done"
    /\ max_devices = 1
    /\ discovery_queue # <<>>
    /\ Len(seed_devices) = 1
    /\ StoreKeys = {seed_devices[1].ip}
    /\ Attempts = 1

\* C13: every run of discover_network terminates, and when it has terminated
\* the queue is empty or the store holds at least max_devices records
C13_Terminates ==
    /\ <>(pc = "done")
    /\ [](pc = "done" =>
            discovery_queue = <<>> \/ Cardinality(StoreKeys) >= max_devices)

\* a run that ends on the empty queue, below the cap, after a device has
\* reported neighbors
C13_Witness ==
    /\ pc = "done"
    /\ discovery_queue = <<>>
    /\ Cardinality(StoreKeys) < max_devices
    /\ \E ip \in StoreKeys : NeighborIpsOf(ip) # {}

\* the addresses in the neighbor list of a stored device that parse as
\* addresses and lie in no excluded range
Reachable(ip) == {n \in NeighborIpsOf(ip) : ~NotAnAddress(n) /\ ~Excluded(n)}

\* C14: when a run ends with fewer than max_devices stored records, every valid,
\* not excluded address in the neighbor list of a stored device is a store key;
\* with one seed, max_devices >= 3 and two such neighbors of the seed, all
\* three are stored
C14_StoreClosedBelowCap ==
    pc = "done" =>
        /\ Cardinality(StoreKeys) < max_devices =>
               \A ip \in StoreKeys : Reachable(ip) \subseteq StoreKeys
        /\ (/\ Len(seed_devices) = 1
            /\ max_devices >= 3
            /\ seed_devices[1].ip \in StoreKeys) =>
               \/ Cardinality(Reachable(seed_devices[1].ip) \ {seed_devices[1].ip}) # 2
               \/ Reachable(seed_devices[1].ip) \subseteq StoreKeys

\* one seed, its two neighbors visited after it, and a run that ends below the
\* cap
C14_ThreeStored ==
    /\ pc = "done"
    /\ Len(seed_devices) = 1
    /\ seed_devices[1].ip \in StoreKeys
    /\ Cardinality(Reachable(seed_devices[1].ip) \ {seed_devices[1].ip}) = 2
    /\ Cardinality(StoreKeys) = 3

\* a run that ends below the cap after a visited neighbor reported neighbors
C14_Witness ==
    /\ pc = "done"
    /\ Cardinality(StoreKeys) = 2
    /\ max_devices = 3
    /\ Len(seed_devices) = 1
    /\ \E ip \in StoreKeys \ {seed_devices[1].ip} : NeighborIpsOf(ip) # {}

\* entry is a copy of params in which only the address differs
CopyWithAddress(entry, params) ==
    /\ DOMAIN entry = DOMAIN params
    /\ \A key \in DOMAIN params \ {"ip"} : entry[key] = params[key]
    /\ entry["ip"] # params["ip"]

\* the neighbors of the visited device are processed
NeighborsStep == pc = "neighbors" /\ pc' = "loop"

C15_Step ==
    /\ seed_devices' = seed_devices
    /\ NeighborsStep =>
           /\ device_params' = device_params
           /\ IsPrefix(discovery_queue, discovery_queue')
           /\ \A k \in (Len(discovery_queue) + 1)..Len(discovery_queue') :
                  /\ CopyWithAddress(discovery_queue'[k], device_params)
                  /\ discovery_queue'[k]["ip"] \in IpsOf(device_data["neighbors"])

\* C15: an entry appended for a neighbor is a copy of the parent's parameters
\* with only the address replaced by the neighbor's address; appending it
\* changes neither the parent's parameters nor any other queue entry, and the
\* seed list is never modified
C15_NeighborEntryIsCopy == [][C15_Step]_vars

\* the seed 10.0.0.2, listed with its own credentials, has been processed and
\* an entry with these credentials is queued for one of its neighbors
C15_Witness ==
    /\ pc = "loop"
    /\ device_params = [ip |-> "10.0.0.2", username |-> "ops"]
    /\ discovery_queue # <<>>
    /\ discovery_queue[Len(discovery_queue)] = [ip |-> "10.0.1.1", username |-> "ops"]
    /\ \E i \in 1..Len(seed_devices) : seed_devices[i] = device_params

\* the positions of command in the list handed to execute_commands
SendsOf(command) == {i \in 1..Len(command_list) : command_list[i] = command}

\* C16: the mapping execute_commands returns has exactly one entry for every
\* command of the list; a command whose (last) execution raised is mapped to
\* the error string, any other to its output, and the commands after one that
\* raised are executed and recorded
C16_OneEntryPerCommand ==
    pc = "parse" =>
        /\ Len(responses) = Len(command_list)
        /\ DOMAIN results = {command_list[i] : i \in 1..Len(command_list)}
        /\ \A i \in 1..Len(command_list) :
               i = Max(SendsOf(command_list[i])) =>
                   results[command_list[i]] =
                       IF responses[i].raises
                       THEN Raw(<<"ERROR:", " ">> \o responses[i].message)
                       ELSE Raw(responses[i].output)

\* a command raised and the command after it is recorded with its output
C16_Witness ==
    /\ pc = "parse"
    /\ Len(command_list) = 3
    /\ command_list[1] = "show cdp neighbors detail"
    /\ command_list[2] = "show lldp neighbors detail"
    /\ responses[1].raises
    /\ results["show cdp neighbors detail"] = Raw(<<"ERROR:", " ", "timeout">>)
    /\ results["show lldp neighbors detail"] = Raw(LldpEntry("10.0.1.1"))

\* the sessions opened and not yet closed
OpenSessions ==
    Cardinality({i \in 1..Len(calls) : calls[i].op = "connect" /\ calls[i].ok})
        - Cardinality({i \in 1..Len(calls) : calls[i].op = "disconnect"})

\* the positions in calls of the calls op made for ip after position i
LaterCalls(op, ip, i) == {j \in CallsOf(op, ip) : j > i}

C17_Sessions ==
    /\ OpenSessions \in {0, 1}
    /\ (connection # None) = (OpenSessions = 1)
    /\ pc \in {"loop", "done"} =>
           /\ OpenSessions = 0
           /\ \A i \in 1..Len(calls) :
                  /\ (calls[i].op = "connect" /\ calls[i].ok) =>
                         Cardinality(LaterCalls("disconnect", calls[i].ip, i)) = 1
                  /\ (calls[i].op = "connect" /\ ~calls[i].ok) =>
                         /\ CallsOf("execute_commands", calls[i].ip) = {}
                         /\ CallsOf("disconnect", calls[i].ip) = {}
                  /\ calls[i].op = "except" =>
                         /\ calls[i].ip \in StoreKeys
                         /\ Cardinality(LaterCalls("disconnect", calls[i].ip, i)) = 1
                  /\ calls[i].op = "disconnect" =>
                         \E j \in 1..(i - 1) :
                             calls[j] = Call("connect", calls[i].ip, TRUE)

\* an entry is dequeued only while no session is open
C17_DequeueStep ==
    (discovery_queue # <<>> /\ discovery_queue' = Tail(discovery_queue)) =>
        OpenSessions = 0

\* C17: at most one session is open at any time; a session opened by connect
\* is closed exactly once before the next entry is dequeued, also when an
\* exception leaves the try block, and the record is then stored and the run
\* goes on; after a failed connect neither execute_commands nor disconnect is
\* called for the device
C17_OneSessionClosedOnce == [] C17_Sessions /\ [][C17_DequeueStep]_vars

\* an exception ended the visit of the first device, its record is stored,
\* and a device was visited after it
C17_Witness ==
    /\ pc = "done"
    /\ Len(depth.visited) >= 2
    /\ \E i \in 1..Len(calls) :
           /\ calls[i].op = "except"
           /\ calls[i].ip \in StoreKeys
           /\ \E j \in (i + 1)..Len(calls) : calls[j].op = "discover_single_device"

\* the positions of the entries of a list of dicts that hold address ip
EntriesFor(list, ip) == {i \in 1..Len(list) : Get(list[i], "ip") = ip}

\* the addresses that device_data['neighbors'] holds more than once and that
\* are neither attempted nor queued, nor rejected by the subnet test, when the
\* neighbors are processed
RepeatedNew ==
    IF "neighbors" \notin DOMAIN device_data THEN {}
    ELSE {ip \in IpsOf(device_data["neighbors"]) :
              /\ Cardinality(EntriesFor(device_data["neighbors"], ip)) >= 2
              /\ Truthy(ip)
              /\ ip \notin attempted_ips
              /\ ip \notin QueuedIps(discovery_queue)
              /\ IsAddress(ip)
              /\ ~InIgnored(ip, ignored_networks)}

C18_TwiceStep ==
    NeighborsStep =>
        \A ip \in RepeatedNew :
            Cardinality(EntriesFor(discovery_queue', ip)) = 2

\* C18 as stated: an address that the neighbor list of one device holds twice,
\* neither attempted nor queued, is enqueued twice
C18_BothOccurrencesEnqueued == [][C18_TwiceStep]_vars

C18_OnceStep ==
    NeighborsStep =>
        \A ip \in RepeatedNew :
            Cardinality(EntriesFor(discovery_queue', ip)) = 1

\* C18: an address that the neighbor list of one device holds more than once,
\* neither attempted nor queued, is enqueued for its first occurrence only:
\* the queue then holds one pending entry for it
C18_FirstOccurrenceEnqueued == [][C18_OnceStep]_vars

\* a device that reported 10.0.0.2 twice has been processed and 10.0.0.2 is
\* queued
C18_Witness ==
    /\ pc = "loop"
    /\ "neighbors" \in DOMAIN device_data
    /\ Cardinality(EntriesFor(device_data["neighbors"], "10.0.0.2")) >= 2
    /\ "10.0.0.2" \notin attempted_ips
    /\ EntriesFor(discovery_queue, "10.0.0.2") # {}
    /\ discovery_queue[Len(discovery_queue)]["ip"] = "10.0.0.2"

\* the visited device reported its own address among its neighbors
SelfNeighbor ==
    /\ "neighbors" \in DOMAIN device_data
    /\ device_ip \in IpsOf(device_data["neighbors"])

C19_Marked ==
    /\ pc = "neighbors" => device_ip \in attempted_ips
    /\ \A ip \in StoreKeys :
           Cardinality(CallsOf("discover_single_device", ip)) <= 1

C19_Step ==
    (NeighborsStep /\ SelfNeighbor) =>
        /\ IsPrefix(discovery_queue, discovery_queue')
        /\ \A k \in (Len(discovery_queue) + 1)..Len(discovery_queue') :
               discovery_queue'[k]["ip"] # device_ip

\* C19: a device that lists its own address among its neighbors never has
\* that address appended to the queue: the address is in attempted_ips when
\* the neighbors are processed, and the device is visited once only
C19_SelfNeighborFiltered == [] C19_Marked /\ [][C19_Step]_vars

\* the neighbors of a device that reported itself and another device have
\* been processed: the other one is queued, the device itself is not
C19_Witness ==
    /\ pc = "loop"
    /\ SelfNeighbor
    /\ device_ip \in StoreKeys
    /\ discovered_devices[device_ip] = device_data
    /\ discovery_queue # <<>>
    /\ discovery_queue[Len(discovery_queue)]["ip"] \in
           IpsOf(device_data["neighbors"]) \ {device_ip}
    /\ device_ip \notin QueuedIps(discovery_queue)

\* depth.queue runs beside discovery_queue, 0 for a seed and the parent's
\* depth plus one for a neighbor; depth.visited holds the depths of the stored
\* visits in visit order
NonDecreasing(s) == \A i \in 1..(Len(s) - 1) : s[i] <= s[i + 1]

\* the seeds still queued are the last entries of the seed list, in its order,
\* and stand before every queued neighbor
SeedsInFront ==
    LET pending == Cardinality({i \in 1..Len(depth.queue) : depth.queue[i] = 0})
    IN  /\ \A i \in 1..pending : depth.queue[i] = 0
        /\ pending <= Len(seed_devices)
        /\ SubSeq(discovery_queue, 1, pending) =
               SubSeq(seed_devices, Len(seed_devices) - pending + 1, Len(seed_devices))

C20_Depths ==
    /\ Len(depth.queue) = Len(discovery_queue)
    /\ SeedsInFront
    /\ NonDecreasing(depth.visited)
    /\ NonDecreasing(depth.queue)
    /\ \A i \in 1..Len(depth.queue) :
           /\ depth.visited # <<>> =>
                  depth.visited[Len(depth.visited)] <= depth.queue[i]
           /\ pc \notin {"start", "loop", "done"} => depth.current <= depth.queue[i]

\* a step takes the front entry off the queue or appends entries at its back,
\* and never reorders the entries that stay
C20_QueueStep ==
    \/ discovery_queue' = discovery_queue
    \/ pc = "start" /\ discovery_queue' = seed_devices
    \/ /\ discovery_queue # <<>>
       /\ discovery_queue' = Tail(discovery_queue)
       /\ device_params' = Head(discovery_queue)
    \/ NeighborsStep /\ IsPrefix(discovery_queue, discovery_queue')

\* C20: the traversal is breadth-first: entries leave the queue in the order
\* they entered it, the seeds, in the order of the seed list, before any
\* neighbor, and with depth 0 for a seed and the parent's depth plus one for
\* an enqueued neighbor the depths of the visited devices never decrease in
\* visit order
C20_BreadthFirst == [] C20_Depths /\ [][C20_QueueStep]_vars

\* two seeds were visited before the neighbor that the first seed reported
C20_Witness ==
    /\ depth.visited = <<0, 0, 1>>
    /\ Len(seed_devices) = 2
    /\ seed_devices[1]["ip"] # seed_devices[2]["ip"]
    /\ "neighbors" \in DOMAIN discovered_devices[seed_devices[1]["ip"]]
    /\ discovered_devices[seed_devices[1]["ip"]]["neighbors"] # <<>>

\* the address is no address or lies in an excluded range
Rejected(ip) == NotAnAddress(ip) \/ Excluded(ip)

C21_QueuedNeighbors ==
    /\ \A i \in 1..Len(discovery_queue) :
           depth.queue[i] >= 1 => ~Rejected(Get(discovery_queue[i], "ip"))
    /\ skipped \subseteq IpsOf(seed_devices)

C21_Step ==
    /\ NeighborsStep =>
           /\ attempted_ips' = attempted_ips
           /\ skipped' = skipped
           /\ \A k \in (Len(discovery_queue) + 1)..Len(discovery_queue') :
                  ~Rejected(Get(discovery_queue'[k], "ip"))
    /\ skipped' # skipped => depth.current' = 0

\* C21: a neighbor address that is no address or lies in an excluded range is
\* filtered when the neighbors are processed: it is never appended to the
\* queue and the step leaves attempted_ips unchanged, so only seed addresses
\* are classified as invalid or excluded when dequeued
C21_RejectedNeighborsFiltered == [] C21_QueuedNeighbors /\ [][C21_Step]_vars

\* the neighbors of a stored device have been processed; it reported
\* 10.0.0.256 and an address of an excluded range, and neither is queued or
\* in attempted_ips
C21_Witness ==
    /\ pc = "loop"
    /\ device_ip \in StoreKeys
    /\ discovered_devices[device_ip] = device_data
    /\ "neighbors" \in DOMAIN device_data
    /\ "10.0.0.256" \in IpsOf(device_data["neighbors"])
    /\ \E ip \in IpsOf(device_data["neighbors"]) : Excluded(ip)
    /\ \A ip \in IpsOf(device_data["neighbors"]) :
           Rejected(ip) => ip \notin attempted_ips \cup QueuedIps(discovery_queue)

(***************************************************************************)
(* Properties of the graph                                                 *)
(***************************************************************************)
EdgeEnds(e) == {e.u, e.v}

\* C11: the graph has at most one edge per unordered pair of addresses, and
\* every edge joins a stored device to a different stored address taken from
\* that device's neighbor list
C11_EdgesJoinDistinctStoredDevices ==
    pc = "graphed" =>
        /\ \A i, j \in 1..Len(graph.edges) :
               i # j => EdgeEnds(graph.edges[i]) # EdgeEnds(graph.edges[j])
        /\ \A i \in 1..Len(graph.edges) :
               LET e == graph.edges[i]
               IN  /\ e.u \in StoreKeys
                   /\ e.v \in StoreKeys
                   /\ e.u # e.v
                   /\ e.v \in NeighborIpsOf(e.u)

====
